---- MODULE Spec2Model ----
(***************************************************************************)
(* A model of tennis_smart_model.py: the hierarchical Monte Carlo match    *)
(* simulator (simulate_match), the player form estimator                   *)
(* (calculate_player_stats), the head-to-head edge (get_h2h_edge) and the  *)
(* serve probability model and matchup loop of run_tennis_analysis.        *)
(*                                                                         *)
(* Probabilities and ratios are exact rationals <<n, d>> in lowest terms   *)
(* with d > 0 (the source computes them in binary floating point; none of  *)
(* the comparisons modelled here is within rounding distance of its        *)
(* threshold).                                                             *)
(***************************************************************************)
EXTENDS Integers, Sequences, FiniteSets, TLC

VARIABLES
    \* ---- simulate_match (lines 259-339)
    pc,              \* position in simulate_match
    best_of,         \* argument
    iterations,      \* argument
    p1_serve_prob,   \* argument
    p2_serve_prob,   \* argument
    it,              \* number of completed passes of the for loop of line 265
    p1_match_wins,
    p1_sets, p2_sets, sets_to_win,
    p1_games, p2_games,
    p1_tb, p2_tb, server_is_p1,
    p1_pts, p2_pts, is_p1_serving,
    prob,            \* the threshold of the last random draw
    draw,            \* what random.random() returned in the current pass of an
                     \* inner loop, Unset when the pass drew nothing
    result,          \* the return value
    \* ---- the historical table and the clock (lines 30-60, datetime.now())
    history_df,      \* sequence of rows
    now,             \* datetime.now(), in hours
    \* ---- calculate_player_stats (lines 145-229)
    spc,             \* position in calculate_player_stats
    player_name, surface,
    relevant_matches,
    row_i,           \* number of rows the loop of line 185 has processed
    serve_points_won, serve_points_total,
    return_points_won, return_points_total,
    minutes_played_recent,
    stats,           \* the return value
    \* ---- get_h2h_edge (lines 231-253)
    hpc,             \* position in get_h2h_edge
    p1_name, p2_name,
    h2h_edge,        \* the return value
    \* ---- run_tennis_analysis (lines 345-464)
    apc,             \* position in run_tennis_analysis
    schedule,        \* get_espn_schedule()
    match_i,         \* number of matchups the loop of line 361 has processed
    stats1, stats2, h2h_impact, p1_srv_prob, p2_srv_prob,
    sim_calls,       \* the arguments of every call of simulate_match
    results,
    sheet,           \* the rows of the Google sheet
    status           \* the return value

simVars == <<pc, best_of, iterations, p1_serve_prob, p2_serve_prob, it,
             p1_match_wins, p1_sets, p2_sets, sets_to_win, p1_games, p2_games,
             p1_tb, p2_tb, server_is_p1, p1_pts, p2_pts, is_p1_serving, prob,
             draw, result>>

dataVars == <<history_df, now>>

statVars == <<spc, player_name, surface, relevant_matches, row_i,
              serve_points_won, serve_points_total, return_points_won,
              return_points_total, minutes_played_recent, stats>>

h2hVars == <<hpc, p1_name, p2_name, h2h_edge>>

anaVars == <<apc, schedule, match_i, stats1, stats2, h2h_impact, p1_srv_prob,
             p2_srv_prob, sim_calls, results, sheet, status>>

vars == <<simVars, dataVars, statVars, h2hVars, anaVars>>

-----------------------------------------------------------------------------
(* Bounds of the model *)

MaxIter == 2        \* largest iterations argument
MaxPts == 5         \* a regular game is followed while neither player has more points
MaxTb == 8          \* a tie-break is followed while neither player has more points
MaxStatRows == 2    \* longest historical table handed to calculate_player_stats
MaxH2HRows == 3     \* longest historical table handed to get_h2h_edge
MaxAnaRows == 2     \* longest historical table of run_tennis_analysis
MaxSchedule == 2    \* longest schedule of run_tennis_analysis

-----------------------------------------------------------------------------
(* Exact rationals *)

Abs(x) == IF x < 0 THEN -x ELSE x

RECURSIVE GCD(_, _)
GCD(a, b) == IF b = 0 THEN a ELSE GCD(b, a % b)

\* n/d in lowest terms with a positive denominator (d # 0)
R(n, d) ==
    LET g == GCD(Abs(n), Abs(d))
        s == IF d < 0 THEN -1 ELSE 1
    IN  <<(s * n) \div g, (s * d) \div g>>

RAdd(x, y) == R(x[1] * y[2] + y[1] * x[2], x[2] * y[2])
RSub(x, y) == R(x[1] * y[2] - y[1] * x[2], x[2] * y[2])
RMul(x, y) == R(x[1] * y[1], x[2] * y[2])
RLess(x, y) == x[1] * y[2] < y[1] * x[2]
RLeq(x, y) == x[1] * y[2] <= y[1] * x[2]
RMin(x, y) == IF RLess(y, x) THEN y ELSE x     \* Python's min(x, y)
RMax(x, y) == IF RLess(x, y) THEN y ELSE x     \* Python's max(x, y)
RInt(n) == <<n, 1>>

None == <<>>           \* Python's None, where the other values are tuples
Unset == <<0, 0>>      \* a local no assignment has reached yet

-----------------------------------------------------------------------------
(* simulate_match *)

\* The arguments the model calls simulate_match with.
BestOfValues == {1, 3, 4, 5}
ProbPairs == { <<R(65, 100), R(60, 100)>>, <<R(85, 100), R(40, 100)>> }

\* The values random.random() returns, a sample of [0, 1).
Draws == { R(0, 1), R(1, 2), R(9, 10) }

\* line 268
SetsToWinAlwaysThree(b) == IF b = 3 THEN 3 ELSE 3
SetsToWin(b) == IF b = 3 THEN 2 ELSE 3

\* lines 277 and 280: the set is won by the player with `mine` games
SetWon(mine, other) == (mine >= 6 /\ mine - other >= 2) \/ mine = 7

\* lines 291 and 293
TbWonNoMargin(mine, other) == mine >= 7
TbWon(mine, other) == mine >= 7 /\ mine - other >= 2

\* lines 319 and 321
GameWonNoMargin(mine, other) == mine >= 4
GameWon(mine, other) == mine >= 4 /\ mine - other >= 2

\* line 312
IsP1ServingFlipped(g1, g2) == (g1 + g2) % 2 # 0
IsP1Serving(g1, g2) == (g1 + g2) % 2 = 0

\* lines 297 and 325
Threshold(p1_serving) ==
    IF p1_serving THEN p1_serve_prob ELSE RSub(RInt(1), p2_serve_prob)

\* lines 306-307, after the point has been added to p1_tb or p2_tb
NextTbServerEveryPoint(server, t1, t2) == ~server
NextTbServer(server, t1, t2) == IF (t1 + t2) % 2 # 0 THEN ~server ELSE server

\* lines 336-337
WinsAfterMatch(w, s1, stw) == IF s1 = stw THEN w + 1 ELSE w

InitSim ==
    /\ pc = "call"
    /\ best_of \in BestOfValues
    /\ iterations \in 1..MaxIter
    /\ \E pp \in ProbPairs : p1_serve_prob = pp[1] /\ p2_serve_prob = pp[2]
    /\ it = 0
    /\ p1_match_wins = 0
    /\ p1_sets = 0 /\ p2_sets = 0 /\ sets_to_win = 0
    /\ p1_games = 0 /\ p2_games = 0
    /\ p1_tb = 0 /\ p2_tb = 0 /\ server_is_p1 = TRUE
    /\ p1_pts = 0 /\ p2_pts = 0 /\ is_p1_serving = TRUE
    /\ prob = Unset
    /\ draw = Unset
    /\ result = None

\* lines 259-260
Call ==
    /\ pc = "call"
    /\ p1_match_wins' = 0
    /\ pc' = "iter"
    /\ UNCHANGED <<best_of, iterations, p1_serve_prob, p2_serve_prob, it,
                   p1_sets, p2_sets, sets_to_win, p1_games, p2_games,
                   p1_tb, p2_tb, server_is_p1, p1_pts, p2_pts, is_p1_serving,
                   prob, draw, result>>

\* lines 265-268: the next pass of the for loop; line 339 when it is exhausted
IterStep ==
    /\ pc = "iter"
    /\ IF it < iterations
       THEN /\ p1_sets' = 0
            /\ p2_sets' = 0
            /\ sets_to_win' = SetsToWin(best_of)
            /\ pc' = "match"
            /\ UNCHANGED result
       ELSE /\ result' = R(p1_match_wins, iterations)
            /\ pc' = "done"
            /\ UNCHANGED <<p1_sets, p2_sets, sets_to_win>>
    /\ UNCHANGED <<best_of, iterations, p1_serve_prob, p2_serve_prob, it,
                   p1_match_wins, p1_games, p2_games,
                   p1_tb, p2_tb, server_is_p1, p1_pts, p2_pts, is_p1_serving,
                   prob, draw>>

\* line 270: the while test; lines 272-273 when it holds, lines 336-337 and
\* the end of the pass when it does not
MatchStep ==
    /\ pc = "match"
    /\ IF p1_sets < sets_to_win /\ p2_sets < sets_to_win
       THEN /\ p1_games' = 0
            /\ p2_games' = 0
            /\ pc' = "set"
            /\ UNCHANGED <<it, p1_match_wins>>
       ELSE /\ p1_match_wins' = WinsAfterMatch(p1_match_wins, p1_sets, sets_to_win)
            /\ it' = it + 1
            /\ pc' = "iter"
            /\ UNCHANGED <<p1_games, p2_games>>
    /\ UNCHANGED <<best_of, iterations, p1_serve_prob, p2_serve_prob,
                   p1_sets, p2_sets, sets_to_win,
                   p1_tb, p2_tb, server_is_p1, p1_pts, p2_pts, is_p1_serving,
                   prob, draw, result>>

\* lines 275-289 and 310-315: one pass of the set loop up to the inner loop it
\* enters.  The locals of the inner loops are dead once the set is over (each
\* is assigned again before it is read): the model clears them there.
SetStep ==
    /\ pc = "set"
    /\ IF SetWon(p1_games, p2_games)
       THEN /\ p1_sets' = p1_sets + 1
            /\ pc' = "match"
            /\ p1_tb' = 0 /\ p2_tb' = 0 /\ server_is_p1' = TRUE
            /\ p1_pts' = 0 /\ p2_pts' = 0 /\ is_p1_serving' = TRUE
            /\ prob' = Unset /\ draw' = Unset
            /\ UNCHANGED p2_sets
       ELSE IF SetWon(p2_games, p1_games)
       THEN /\ p2_sets' = p2_sets + 1
            /\ pc' = "match"
            /\ p1_tb' = 0 /\ p2_tb' = 0 /\ server_is_p1' = TRUE
            /\ p1_pts' = 0 /\ p2_pts' = 0 /\ is_p1_serving' = TRUE
            /\ prob' = Unset /\ draw' = Unset
            /\ UNCHANGED p1_sets
       ELSE IF p1_games = 6 /\ p2_games = 6
       THEN /\ p1_tb' = 0
            /\ p2_tb' = 0
            /\ server_is_p1' = TRUE
            /\ pc' = "tb"
            /\ UNCHANGED <<p1_sets, p2_sets, p1_pts, p2_pts, is_p1_serving,
                           prob, draw>>
       ELSE /\ is_p1_serving' = IsP1Serving(p1_games, p2_games)
            /\ p1_pts' = 0
            /\ p2_pts' = 0
            /\ pc' = "game"
            /\ UNCHANGED <<p1_sets, p2_sets, p1_tb, p2_tb, server_is_p1,
                           prob, draw>>
    /\ UNCHANGED <<best_of, iterations, p1_serve_prob, p2_serve_prob, it,
                   p1_match_wins, sets_to_win, p1_games, p2_games, result>>

\* lines 290-307: one pass of the tie-break loop
TbStep ==
    /\ pc = "tb"
    /\ IF TbWon(p1_tb, p2_tb)
       THEN /\ p1_games' = 7
            /\ draw' = Unset
            /\ pc' = "set"
            /\ UNCHANGED <<p2_games, p1_tb, p2_tb, server_is_p1, prob>>
       ELSE IF TbWon(p2_tb, p1_tb)
       THEN /\ p2_games' = 7
            /\ draw' = Unset
            /\ pc' = "set"
            /\ UNCHANGED <<p1_games, p1_tb, p2_tb, server_is_p1, prob>>
       ELSE /\ p1_tb < MaxTb /\ p2_tb < MaxTb
            /\ \E r \in Draws :
                 /\ prob' = Threshold(server_is_p1)
                 /\ draw' = r
                 /\ IF RLess(r, prob')
                    THEN p1_tb' = p1_tb + 1 /\ p2_tb' = p2_tb
                    ELSE p2_tb' = p2_tb + 1 /\ p1_tb' = p1_tb
            /\ server_is_p1' = NextTbServer(server_is_p1, p1_tb', p2_tb')
            /\ pc' = "tb"
            /\ UNCHANGED <<p1_games, p2_games>>
    /\ UNCHANGED <<best_of, iterations, p1_serve_prob, p2_serve_prob, it,
                   p1_match_wins, p1_sets, p2_sets, sets_to_win,
                   p1_pts, p2_pts, is_p1_serving, result>>

\* lines 317-334: one pass of the regular game loop
GameStep ==
    /\ pc = "game"
    /\ IF GameWon(p1_pts, p2_pts)
       THEN /\ p1_games' = p1_games + 1
            /\ draw' = Unset
            /\ pc' = "set"
            /\ UNCHANGED <<p2_games, p1_pts, p2_pts, prob>>
       ELSE IF GameWon(p2_pts, p1_pts)
       THEN /\ p2_games' = p2_games + 1
            /\ draw' = Unset
            /\ pc' = "set"
            /\ UNCHANGED <<p1_games, p1_pts, p2_pts, prob>>
       ELSE /\ p1_pts < MaxPts /\ p2_pts < MaxPts
            /\ \E r \in Draws :
                 /\ prob' = Threshold(is_p1_serving)
                 /\ draw' = r
                 /\ IF RLess(r, prob')
                    THEN p1_pts' = p1_pts + 1 /\ p2_pts' = p2_pts
                    ELSE p2_pts' = p2_pts + 1 /\ p1_pts' = p1_pts
            /\ pc' = "game"
            /\ UNCHANGED <<p1_games, p2_games>>
    /\ UNCHANGED <<best_of, iterations, p1_serve_prob, p2_serve_prob, it,
                   p1_match_wins, p1_sets, p2_sets, sets_to_win,
                   p1_tb, p2_tb, server_is_p1, is_p1_serving, result>>

-----------------------------------------------------------------------------
(* Strings, names and the historical table *)

\* A string is a sequence of one-character strings, a name a sequence of
\* whitespace-separated words: name.split() is the name itself.
LowerChar(c) ==
    CASE c = "A" -> "a" [] c = "B" -> "b" [] c = "C" -> "c" [] c = "G" -> "g"
      [] c = "H" -> "h" [] c = "L" -> "l" [] c = "N" -> "n" [] c = "O" -> "o"
      [] OTHER -> c

\* str.lower() of one word, and of a name
LowerWord(w) == [i \in 1..Len(w) |-> LowerChar(w[i])]
LowerName(n) == [i \in 1..Len(n) |-> LowerWord(n[i])]

\* sub in word
InWord(sub, w) ==
    \E i \in 1..(Len(w) - Len(sub) + 1) : SubSeq(w, i, i + Len(sub) - 1) = sub

\* sub in name, for a sub without whitespace (str.contains(sub), `sub in s`)
Contains(n, sub) == \E k \in 1..Len(n) : InWord(sub, n[k])

\* lines 156, 234, 235: name.split()[-1].lower()
LastLower(n) == LowerWord(n[Len(n)])

\* pandas' missing value; every count of the table is >= 0
NaN == -1
IsNa(x) == x = NaN
NAdd(x, y) == IF IsNa(x) \/ IsNa(y) THEN NaN ELSE x + y
NSub(x, y) == IF IsNa(x) \/ IsNa(y) THEN NaN ELSE x - y

\* the names of the schedule (ESPN: "First Last")
NaLi == << <<"N", "a">>, <<"L", "i">> >>
AlLin == << <<"A", "l">>, <<"L", "i", "n">> >>
BoNg == << <<"B", "o">>, <<"N", "g">> >>

\* the names of the historical table ("Last F.")
LiN == << <<"L", "i">>, <<"N", ".">> >>
LinA == << <<"L", "i", "n">>, <<"A", ".">> >>
NgB == << <<"N", "g">>, <<"B", ".">> >>
OttC == << <<"O", "t", "t">>, <<"C", ".">> >>

\* surface.lower(), of the surfaces of the model
LowerSurface(s) ==
    CASE s = "Hard" -> "hard" [] s = "Clay" -> "clay" [] s = "Grass" -> "grass"
      [] OTHER -> s

\* A row of the table.  tourney_date is a day number (midnight of that day).
Row(d, sf, w, l, wsv, w1, w2, lsv, l1, l2, mins) ==
    [tourney_date |-> d, surface |-> sf, winner_name |-> w, loser_name |-> l,
     w_svpt |-> wsv, w_1stWon |-> w1, w_2ndWon |-> w2,
     l_svpt |-> lsv, l_1stWon |-> l1, l_2ndWon |-> l2, minutes |-> mins]

\* the clock of the model: noon of day 400
NowValues == {400 * 24 + 12}

\* lines 152, 159, 168, 233, 238: tourney_date >= now - timedelta(weeks=52)
InWindow(row, t) == row.tourney_date * 24 >= t - 52 * 7 * 24

\* lines 200, 210: (today - match_date).days
DaysSince(row, t) == (t - row.tourney_date * 24) \div 24

\* lines 161-162, 169-170: the player's last name is in a name of the row
NameMatches(row, p_last) ==
    \/ Contains(LowerName(row.winner_name), p_last)
    \/ Contains(LowerName(row.loser_name), p_last)

\* all the sequences over S of length at most n
SeqsUpTo(S, n) == UNION { [1..k -> S] : k \in 0..n }

-----------------------------------------------------------------------------
(* calculate_player_stats *)

\* lines 158-163
SurfaceMatches(name, sf, table, t) ==
    LET p_last == LastLower(name)
        Keep(row) == /\ InWindow(row, t)
                     /\ LowerSurface(row.surface) = LowerSurface(sf)
                     /\ NameMatches(row, p_last)
    IN  SelectSeq(table, Keep)     \* df[mask], in the table's order

\* lines 167-171
AnySurfaceMatches(name, table, t) ==
    LET p_last == LastLower(name)
        Keep(row) == InWindow(row, t) /\ NameMatches(row, p_last)
    IN  SelectSeq(table, Keep)     \* df[mask], in the table's order

\* lines 158-171: relevant_matches as it stands at line 173
RelevantMatches(name, sf, table, t) ==
    LET on_surface == SurfaceMatches(name, sf, table, t)
    IN  IF on_surface = <<>> THEN AnySurfaceMatches(name, table, t)
        ELSE on_surface

\* lines 177-181
ZeroTotals ==
    [serve_points_won |-> 0, serve_points_total |-> 0,
     return_points_won |-> 0, return_points_total |-> 0,
     minutes_played_recent |-> 0]

\* lines 200-201 and 210-211
AddMinutes(m, row, t) ==
    IF DaysSince(row, t) <= 7
    THEN m + (IF ~IsNa(row.minutes) THEN row.minutes ELSE 90)
    ELSE m

\* lines 213 and 217: pd.notna(played) and pd.notna(won)
BothPresentPlayedOnly(played, won) == ~IsNa(played)
BothPresent(played, won) == ~IsNa(played) /\ ~IsNa(won)

\* lines 186-219: the body of the loop over relevant_matches
AggRow(acc, row, p_last, t) ==
    LET is_winner == Contains(LowerName(row.winner_name), p_last)
        s_played == IF is_winner THEN row.w_svpt ELSE row.l_svpt
        s_won == IF is_winner THEN NAdd(row.w_1stWon, row.w_2ndWon)
                 ELSE NAdd(row.l_1stWon, row.l_2ndWon)
        r_played == IF is_winner THEN row.l_svpt ELSE row.w_svpt
        r_won == IF is_winner
                 THEN NSub(row.l_svpt, NAdd(row.l_1stWon, row.l_2ndWon))
                 ELSE NSub(row.w_svpt, NAdd(row.w_1stWon, row.w_2ndWon))
        serve_ok == BothPresent(s_played, s_won)
        return_ok == BothPresent(r_played, r_won)
    IN  [serve_points_total |->
             IF serve_ok THEN acc.serve_points_total + s_played
             ELSE acc.serve_points_total,
         serve_points_won |->
             IF serve_ok THEN acc.serve_points_won + s_won
             ELSE acc.serve_points_won,
         return_points_total |->
             IF return_ok THEN acc.return_points_total + r_played
             ELSE acc.return_points_total,
         return_points_won |->
             IF return_ok THEN acc.return_points_won + r_won
             ELSE acc.return_points_won,
         minutes_played_recent |-> AddMinutes(acc.minutes_played_recent, row, t)]

\* lines 222-229
MakeStats(acc) ==
    << [serve_pct |-> IF acc.serve_points_total > 0
                      THEN R(acc.serve_points_won, acc.serve_points_total)
                      ELSE R(64, 100),
        return_pct |-> IF acc.return_points_total > 0
                       THEN R(acc.return_points_won, acc.return_points_total)
                       ELSE R(36, 100),
        recent_minutes |-> acc.minutes_played_recent] >>

\* the locals of the loop, as a record
Totals ==
    [serve_points_won |-> serve_points_won,
     serve_points_total |-> serve_points_total,
     return_points_won |-> return_points_won,
     return_points_total |-> return_points_total,
     minutes_played_recent |-> minutes_played_recent]

\* The arguments the model calls calculate_player_stats with.
StatPlayers == {NaLi, BoNg}
StatSurfaces == {"Hard", "Clay"}

\* Rows in which exactly the fields of `missing` are missing.
StatRow(d, sf, w, l, missing, mins) ==
    Row(d, sf, w, l,
        IF "w_svpt" \in missing THEN NaN ELSE 10,
        IF "w_1stWon" \in missing THEN NaN ELSE 5,
        IF "w_2ndWon" \in missing THEN NaN ELSE 2,
        IF "l_svpt" \in missing THEN NaN ELSE 8,
        IF "l_1stWon" \in missing THEN NaN ELSE 3,
        IF "l_2ndWon" \in missing THEN NaN ELSE 1,
        mins)

NumericFields == {"w_svpt", "w_1stWon", "w_2ndWon", "l_svpt", "l_1stWon", "l_2ndWon"}

\* The rows of the tables of the model: complete rows of several dates,
\* surfaces and durations, and rows of the last week with fields missing.
StatRows ==
    { StatRow(d, sf, LiN, NgB, {}, mins) :
        d \in {400 - 3, 400 - 8, 400 - 370}, sf \in {"Hard", "Clay"},
        mins \in {NaN, 100} }
    \cup { StatRow(400 - 7, "hard", LinA, OttC, {}, 100) }
    \cup { StatRow(400 - 3, "Hard", np[1], np[2], {f}, 100) :
             np \in {<<LiN, NgB>>, <<NgB, LiN>>}, f \in NumericFields }
    \cup { StatRow(400 - 3, "Hard", NgB, LiN, NumericFields, NaN) }

InitStats ==
    /\ history_df \in SeqsUpTo(StatRows, MaxStatRows)
    /\ now \in NowValues
    /\ player_name \in StatPlayers
    /\ surface \in StatSurfaces
    /\ spc = "call"
    /\ relevant_matches = <<>>
    /\ row_i = 0
    /\ serve_points_won = 0 /\ serve_points_total = 0
    /\ return_points_won = 0 /\ return_points_total = 0
    /\ minutes_played_recent = 0
    /\ stats = Unset

\* lines 152-183: the filters, the early return and the initial totals
StatsFilter ==
    /\ spc = "call"
    /\ relevant_matches' = RelevantMatches(player_name, surface, history_df, now)
    /\ IF relevant_matches' = <<>>
       THEN stats' = None /\ spc' = "done"
       ELSE stats' = stats /\ spc' = "loop"
    /\ serve_points_won' = ZeroTotals.serve_points_won
    /\ serve_points_total' = ZeroTotals.serve_points_total
    /\ return_points_won' = ZeroTotals.return_points_won
    /\ return_points_total' = ZeroTotals.return_points_total
    /\ minutes_played_recent' = ZeroTotals.minutes_played_recent
    /\ UNCHANGED <<player_name, surface, row_i>>

\* lines 185-219: one pass of the loop; lines 222-229 when it is exhausted
StatsRow ==
    /\ spc = "loop"
    /\ IF row_i < Len(relevant_matches)
       THEN LET acc == AggRow(Totals, relevant_matches[row_i + 1],
                              LastLower(player_name), now)
            IN  /\ serve_points_won' = acc.serve_points_won
                /\ serve_points_total' = acc.serve_points_total
                /\ return_points_won' = acc.return_points_won
                /\ return_points_total' = acc.return_points_total
                /\ minutes_played_recent' = acc.minutes_played_recent
                /\ row_i' = row_i + 1
                /\ UNCHANGED <<spc, stats>>
       ELSE /\ stats' = MakeStats(Totals)
            /\ spc' = "done"
            /\ UNCHANGED <<row_i, serve_points_won, serve_points_total,
                           return_points_won, return_points_total,
                           minutes_played_recent>>
    /\ UNCHANGED <<player_name, surface, relevant_matches>>

NextStats ==
    \/ StatsFilter /\ UNCHANGED <<simVars, dataVars, h2hVars, anaVars>>
    \/ StatsRow /\ UNCHANGED <<simVars, dataVars, h2hVars, anaVars>>

\* simulate_match at rest, for the specifications of the other functions
IdleSim ==
    /\ pc = "idle"
    /\ best_of = 3 /\ iterations = 0
    /\ p1_serve_prob = Unset /\ p2_serve_prob = Unset
    /\ it = 0
    /\ p1_match_wins = 0
    /\ p1_sets = 0 /\ p2_sets = 0 /\ sets_to_win = 0
    /\ p1_games = 0 /\ p2_games = 0
    /\ p1_tb = 0 /\ p2_tb = 0 /\ server_is_p1 = TRUE
    /\ p1_pts = 0 /\ p2_pts = 0 /\ is_p1_serving = TRUE
    /\ prob = Unset
    /\ draw = Unset
    /\ result = None

\* calculate_player_stats at rest
IdleStats ==
    /\ spc = "idle"
    /\ player_name = <<>> /\ surface = ""
    /\ relevant_matches = <<>>
    /\ row_i = 0
    /\ serve_points_won = 0 /\ serve_points_total = 0
    /\ return_points_won = 0 /\ return_points_total = 0
    /\ minutes_played_recent = 0
    /\ stats = Unset

\* no table, for the specification of simulate_match
IdleData == history_df = <<>> /\ now \in NowValues

\* get_h2h_edge at rest
IdleH2H ==
    /\ hpc = "idle"
    /\ p1_name = <<>> /\ p2_name = <<>>
    /\ h2h_edge = Unset

\* run_tennis_analysis at rest
IdleAna ==
    /\ apc = "idle"
    /\ schedule = <<>>
    /\ match_i = 0
    /\ stats1 = Unset /\ stats2 = Unset /\ h2h_impact = Unset
    /\ p1_srv_prob = Unset /\ p2_srv_prob = Unset
    /\ sim_calls = <<>>
    /\ results = <<>>
    /\ sheet = <<>>
    /\ status = ""

StatsInit == InitStats /\ IdleSim /\ IdleH2H /\ IdleAna

SpecStats == StatsInit /\ [][NextStats]_vars

-----------------------------------------------------------------------------
(* Properties of calculate_player_stats *)

\* the row the loop of line 185 processes next
NextRow == relevant_matches[row_i + 1]

AtRow == spc = "loop" /\ row_i < Len(relevant_matches)

\* the player of the call is the row's winner (line 186)
PlayerWon(row) == Contains(LowerName(row.winner_name), LastLower(player_name))

WinnerFields == {"w_svpt", "w_1stWon", "w_2ndWon"}
LoserFields == {"l_svpt", "l_1stWon", "l_2ndWon"}

MissingFields(row) == {f \in NumericFields : IsNa(row[f])}

\* the fields of the player's own serve, and of the opponent's serve
OwnFields(row) == IF PlayerWon(row) THEN WinnerFields ELSE LoserFields
OppFields(row) == IF PlayerWon(row) THEN LoserFields ELSE WinnerFields

ServeTotalsUnchanged ==
    /\ serve_points_total' = serve_points_total
    /\ serve_points_won' = serve_points_won

ReturnTotalsUnchanged ==
    /\ return_points_total' = return_points_total
    /\ return_points_won' = return_points_won

C6_WholeRowStep ==
    (AtRow /\ MissingFields(NextRow) # {}) =>
        /\ ServeTotalsUnchanged
        /\ ReturnTotalsUnchanged
        /\ spc' = "loop" /\ row_i' = row_i + 1

\* C6 as stated: a relevant row in which any required numeric field is
\* missing adds nothing to any of the four totals, and the remaining rows
\* are still aggregated.
C6_RowWithMissingFieldSkipped == [][C6_WholeRowStep]_vars

C6_PerSideStep ==
    AtRow =>
        LET row == NextRow
            own(f) == IF PlayerWon(row) THEN row["w_" \o f] ELSE row["l_" \o f]
            opp(f) == IF PlayerWon(row) THEN row["l_" \o f] ELSE row["w_" \o f]
        IN  /\ (MissingFields(row) \cap OwnFields(row) # {})
                  => ServeTotalsUnchanged
            /\ (MissingFields(row) \cap OppFields(row) # {})
                  => ReturnTotalsUnchanged
            /\ (MissingFields(row) \cap OwnFields(row) = {}) =>
                  /\ serve_points_total' = serve_points_total + own("svpt")
                  /\ serve_points_won' =
                        serve_points_won + own("1stWon") + own("2ndWon")
            /\ (MissingFields(row) \cap OppFields(row) = {}) =>
                  /\ return_points_total' = return_points_total + opp("svpt")
                  /\ return_points_won' =
                        return_points_won
                          + (opp("svpt") - (opp("1stWon") + opp("2ndWon")))
            /\ spc' = "loop" /\ row_i' = row_i + 1

\* C6 as amended: a relevant row with a missing field among the player's own
\* serve fields adds nothing to the two serve totals, and one with a missing
\* field among the opponent's serve fields adds nothing to the two return
\* totals; the pair of totals whose three fields are all present is still
\* added, no missing value is counted as zero, and the loop goes on to the
\* remaining rows, all of which have been processed when it returns.
C6_MissingFieldSkipsItsSide ==
    /\ [][C6_PerSideStep]_vars
    /\ [](spc = "done" /\ stats # None => row_i = Len(relevant_matches))

C6_Witness ==
    /\ spc = "done" /\ Len(relevant_matches) = 2 /\ row_i = 2
    /\ player_name = NaLi
    /\ MissingFields(relevant_matches[1]) = {"w_2ndWon"}
    /\ PlayerWon(relevant_matches[1])
    /\ MissingFields(relevant_matches[2]) = {}
    /\ serve_points_total = 10 /\ return_points_total = 16

\* the minutes of the rows of `rows` that name the player and are at most 7
\* days old, 90 for a row without minutes
RECURSIVE RecentMinutesOf(_)
RecentMinutesOf(rows) ==
    IF rows = <<>> THEN 0
    ELSE LET row == Head(rows)
         IN  (IF /\ NameMatches(row, LastLower(player_name))
                 /\ DaysSince(row, now) <= 7
              THEN IF IsNa(row.minutes) THEN 90 ELSE row.minutes
              ELSE 0)
             + RecentMinutesOf(Tail(rows))

\* C8: the recent_minutes returned for (player, surface) is the sum, over
\* all rows naming the player that are within 7 days of now on any surface,
\* of the row's minutes (90 when missing), also when the player has rows on
\* the target surface and a recent match on another one.
C8_RecentMinutesOverAllSurfaces ==
    (spc = "done" /\ stats # None) =>
        stats[1].recent_minutes = RecentMinutesOf(history_df)

-----------------------------------------------------------------------------
(* get_h2h_edge *)

\* lines 237-243
H2HMatches(n1, n2, table, t) ==
    LET p1_last == LastLower(n1)
        p2_last == LastLower(n2)
        Keep(row) ==
            /\ InWindow(row, t)
            /\ \/ /\ Contains(LowerName(row.winner_name), p1_last)
                  /\ Contains(LowerName(row.loser_name), p2_last)
               \/ /\ Contains(LowerName(row.winner_name), p2_last)
                  /\ Contains(LowerName(row.loser_name), p1_last)
    IN  SelectSeq(table, Keep)

\* line 247
P1Wins(matches, p1_last) ==
    Cardinality({i \in 1..Len(matches) :
                    Contains(LowerName(matches[i].winner_name), p1_last)})

\* lines 251-253
EdgeOfThreshold67(win_pct) ==
    IF RLess(R(67, 100), win_pct) THEN R(2, 100)
    ELSE IF RLess(win_pct, R(34, 100)) THEN R(-2, 100)
    ELSE R(0, 1)
EdgeOf(win_pct) ==
    IF RLess(R(66, 100), win_pct) THEN R(2, 100)
    ELSE IF RLess(win_pct, R(34, 100)) THEN R(-2, 100)
    ELSE R(0, 1)

\* lines 231-253
get_h2h_edge(n1, n2, table, t) ==
    LET matches == H2HMatches(n1, n2, table, t)
        p1_wins == P1Wins(matches, LastLower(n1))
        total == Len(matches)
    IN  IF matches = <<>> THEN R(0, 1)
        ELSE EdgeOf(R(p1_wins, total))

\* The arguments the model calls get_h2h_edge with.
H2HPlayerPairs == {<<NaLi, BoNg>>, <<BoNg, NaLi>>, <<AlLin, BoNg>>, <<NaLi, AlLin>>}

H2HRows ==
    { StatRow(d, "Hard", np[1], np[2], {}, 100) :
        d \in {400 - 30, 400 - 370},
        np \in {<<LiN, NgB>>, <<NgB, LiN>>, <<LinA, NgB>>, <<OttC, LiN>>} }

InitH2H ==
    /\ history_df \in SeqsUpTo(H2HRows, MaxH2HRows)
    /\ now \in NowValues
    /\ \E pp \in H2HPlayerPairs : p1_name = pp[1] /\ p2_name = pp[2]
    /\ hpc = "call"
    /\ h2h_edge = Unset

\* lines 231-253
H2HCall ==
    /\ hpc = "call"
    /\ h2h_edge' = get_h2h_edge(p1_name, p2_name, history_df, now)
    /\ hpc' = "done"
    /\ UNCHANGED <<p1_name, p2_name>>

NextH2H == H2HCall /\ UNCHANGED <<simVars, dataVars, statVars, anaVars>>

H2HInit == InitH2H /\ IdleSim /\ IdleStats /\ IdleAna

SpecH2H == H2HInit /\ [][NextH2H]_vars

-----------------------------------------------------------------------------
(* Properties of get_h2h_edge *)

\* the head-to-head matches of the window, and those player 1 won
WindowH2H == H2HMatches(p1_name, p2_name, history_df, now)

WonByP1 == P1Wins(WindowH2H, LastLower(p1_name))

\* C5 as stated: with exactly 3 head-to-head matches in the 52-week window,
\* of which player 1 won exactly 2, get_h2h_edge returns 0.
C5_TwoOfThreeGivesNoEdge ==
    (hpc = "done" /\ Len(WindowH2H) = 3 /\ WonByP1 = 2) => h2h_edge = R(0, 1)

\* C5 as amended: with exactly 3 head-to-head matches in the 52-week window,
\* of which player 1 won exactly 2, get_h2h_edge returns +0.02 (2/3 is
\* above the 0.66 threshold).
C5_TwoOfThreeGivesP1Edge ==
    (hpc = "done" /\ Len(WindowH2H) = 3 /\ WonByP1 = 2) => h2h_edge = R(2, 100)

C5_Witness ==
    /\ hpc = "done" /\ Len(history_df) = 3 /\ Len(WindowH2H) = 3 /\ WonByP1 = 2
    /\ p1_name = NaLi /\ p2_name = BoNg
    /\ h2h_edge = R(2, 100)

-----------------------------------------------------------------------------
(* run_tennis_analysis *)

\* line 22
SIMULATIONS == 10000

\* line 359
AVG_SERVE_PCT == R(64, 100)

\* lines 145-229, as one call
StatsWithDefaults(name, sf, table, t) ==
    LET relevant == RelevantMatches(name, sf, table, t)
        p_last == LastLower(name)
        Fold[k \in 0..Len(relevant)] ==
            IF k = 0 THEN ZeroTotals
            ELSE AggRow(Fold[k - 1], relevant[k], p_last, t)
    IN  MakeStats(Fold[Len(relevant)])
calculate_player_stats(name, sf, table, t) ==
    LET relevant == RelevantMatches(name, sf, table, t)
        p_last == LastLower(name)
        Fold[k \in 0..Len(relevant)] ==
            IF k = 0 THEN ZeroTotals
            ELSE AggRow(Fold[k - 1], relevant[k], p_last, t)
    IN  IF relevant = <<>> THEN None ELSE MakeStats(Fold[Len(relevant)])

\* line 372: not stats1 or not stats2
Insufficient(s1, s2) == s1 = None \/ s2 = None

\* lines 379-380 and 382-383: the form after the fatigue penalty
Tired(st) == st.recent_minutes > 180
ApplyFatigue(st) ==
    IF Tired(st) THEN [st EXCEPT !.serve_pct = RMul(st.serve_pct, R(92, 100))]
    ELSE st

\* lines 378-384: the alert, as the set of the tired players
FatigueAlert(m, s1, s2) ==
    (IF Tired(s1) THEN {m.p1_name} ELSE {})
      \cup (IF Tired(s2) THEN {m.p2_name} ELSE {})

\* lines 388-392
H2HString(m, h) ==
    IF RLess(R(0, 1), h) THEN <<m.p1_name, "H2H Edge">>
    ELSE IF RLess(h, R(0, 1)) THEN <<m.p2_name, "H2H Edge">>
    ELSE <<"-">>

\* lines 398 and 402, before the head-to-head edge is applied
BaseProb(own_serve, opp_return) ==
    RSub(RAdd(AVG_SERVE_PCT, RSub(own_serve, AVG_SERVE_PCT)),
         RSub(opp_return, RSub(RInt(1), AVG_SERVE_PCT)))

\* lines 406-407
ClampLowOnly(x) == RMax(R(40, 100), x)
Clamp(x) == RMax(R(40, 100), RMin(R(85, 100), x))

\* lines 398-407: the two probabilities handed to simulate_match, from the
\* forms after the fatigue penalty
ServeProbs(s1, s2, h) ==
    << Clamp(RAdd(BaseProb(s1.serve_pct, s2.return_pct), h)),
       Clamp(RSub(BaseProb(s2.serve_pct, s1.return_pct), h)) >>

\* lines 376-410: from the two forms and the head-to-head edge to the call
\* of simulate_match
DeriveAndSimulate(s1, s2, h) ==
    LET f1 == ApplyFatigue(s1)
        f2 == ApplyFatigue(s2)
        probs == ServeProbs(f1, f2, h)
    IN  /\ stats1' = <<f1>>
        /\ stats2' = <<f2>>
        /\ h2h_impact' = h
        /\ p1_srv_prob' = probs[1]
        /\ p2_srv_prob' = probs[2]
        /\ sim_calls' = Append(sim_calls, <<probs[1], probs[2], SIMULATIONS>>)

\* round(x, k), to the nearest multiple of 10^-k, a tie to the even one
Pow10(k) == IF k = 0 THEN 1 ELSE IF k = 1 THEN 10 ELSE 100
RoundTo(x, k) ==
    LET num == x[1] * Pow10(k)
        q == num \div x[2]
        twice == 2 * (num % x[2])
        up == twice > x[2] \/ (twice = x[2] /\ q % 2 = 1)
    IN  R(IF up THEN q + 1 ELSE q, Pow10(k))

\* lines 413-428: the record of a matchup whose simulation returned win
ResultRecord(m, s1, s2, h, win) ==
    LET p1_fav == RLeq(R(1, 2), win)
        win_prob == IF p1_fav THEN win ELSE RSub(RInt(1), win)
        fair_odds == IF RLess(R(0, 1), win_prob)
                     THEN R(win_prob[2], win_prob[1]) ELSE R(0, 1)
    IN  [Date |-> m.date[1],
         Tournament |-> m.tournament,
         Surface |-> m.surface,
         Favorite |-> IF p1_fav THEN m.p1_name ELSE m.p2_name,
         Underdog |-> IF p1_fav THEN m.p2_name ELSE m.p1_name,
         WinProbability |-> win_prob,
         FairOdds |-> RoundTo(fair_odds, 2),
         FatigueAlert |-> FatigueAlert(m, s1, s2),
         H2HEdge |-> H2HString(m, h)]

\* lines 432-437: the orders sort_values may leave the records in (highest
\* probability first, ties in any order), the probability as a percentage
\* rounded to one decimal
SheetRows(rs) ==
    { [i \in 1..Len(rs) |->
          [rs[f[i]] EXCEPT !.WinProbability =
               RoundTo(RMul(rs[f[i]].WinProbability, RInt(100)), 1)]] :
        f \in { g \in [1..Len(rs) -> 1..Len(rs)] :
                  /\ \A i, j \in 1..Len(rs) : i # j => g[i] # g[j]
                  /\ \A i \in 1..(Len(rs) - 1) :
                        RLeq(rs[g[i + 1]].WinProbability,
                             rs[g[i]].WinProbability) } }

\* A matchup of the schedule; date is <<the first 10 characters, the rest>>.
Matchup(n1, n2, sf) ==
    [date |-> <<"2025-01-15", "T10:00Z">>, tournament |-> "atp-tour",
     surface |-> sf, p1_name |-> n1, p2_name |-> n2]

\* The schedules and tables of the model.
AnaMatchups ==
    { Matchup(NaLi, BoNg, "Hard"), Matchup(BoNg, AlLin, "Clay"),
      Matchup(AlLin, NaLi, "Hard") }

AnaRows ==
    { Row(400 - 3, "Hard", LiN, NgB, 10, 5, 2, 8, 3, 1, 200),
      Row(400 - 3, "Clay", NgB, OttC, 10, 6, 4, 8, 4, 4, NaN),
      Row(400 - 30, "Clay", LinA, OttC, 10, 5, 2, 8, 3, 1, 100),
      Row(400 - 370, "Hard", NgB, LinA, 10, 5, 2, 8, 3, 1, 100) }

\* The values the model lets simulate_match return.
SimResults == { R(1, 4), R(1, 2) }

InitAna ==
    /\ history_df \in SeqsUpTo(AnaRows, MaxAnaRows)
    /\ now \in NowValues
    /\ schedule \in SeqsUpTo(AnaMatchups, MaxSchedule)
    /\ apc = "call"
    /\ match_i = 0
    /\ stats1 = Unset /\ stats2 = Unset /\ h2h_impact = Unset
    /\ p1_srv_prob = Unset /\ p2_srv_prob = Unset
    /\ sim_calls = <<>>
    /\ results = <<>>
    /\ sheet = <<>>
    /\ status = ""

\* lines 349-355
AnaStart ==
    /\ apc = "call"
    /\ IF history_df = <<>> \/ schedule = <<>>
       THEN status' = "Error: Data unavailable." /\ apc' = "done"
       ELSE status' = status /\ apc' = "loop"
    /\ results' = <<>>
    /\ UNCHANGED <<schedule, match_i, stats1, stats2, h2h_impact, p1_srv_prob,
                   p2_srv_prob, sim_calls, sheet>>

\* lines 361-428: one pass of the loop over the schedule
AnaMatch ==
    /\ apc = "loop"
    /\ match_i < Len(schedule)
    /\ LET m == schedule[match_i + 1]
           s1 == calculate_player_stats(m.p1_name, m.surface, history_df, now)
           s2 == calculate_player_stats(m.p2_name, m.surface, history_df, now)
       IN  IF Insufficient(s1, s2)
           THEN /\ stats1' = s1
                /\ stats2' = s2
                /\ UNCHANGED <<h2h_impact, p1_srv_prob, p2_srv_prob, sim_calls,
                               results>>
           ELSE LET h == get_h2h_edge(m.p1_name, m.p2_name, history_df, now)
                IN  /\ DeriveAndSimulate(s1[1], s2[1], h)
                    /\ \E win \in SimResults :
                          results' = Append(results,
                                            ResultRecord(m, s1[1], s2[1], h, win))
    /\ match_i' = match_i + 1
    /\ UNCHANGED <<apc, schedule, sheet, status>>

\* lines 430-464: the export, once the loop is exhausted
AnaExport ==
    /\ apc = "loop"
    /\ match_i = Len(schedule)
    /\ IF results # <<>>
       THEN \E rows \in SheetRows(results) :
              \/ /\ sheet' = rows
                 /\ status' = "Success: Tennis Predictions Updated!"
              \/ /\ sheet' \in {sheet, <<>>, rows}
                 /\ status' = "Error"
       ELSE /\ status' = "No matches analyzed."
            /\ UNCHANGED sheet
    /\ apc' = "done"
    /\ UNCHANGED <<schedule, match_i, stats1, stats2, h2h_impact, p1_srv_prob,
                   p2_srv_prob, sim_calls, results>>

NextAna ==
    \/ AnaStart /\ UNCHANGED <<simVars, dataVars, statVars, h2hVars>>
    \/ AnaMatch /\ UNCHANGED <<simVars, dataVars, statVars, h2hVars>>
    \/ AnaExport /\ UNCHANGED <<simVars, dataVars, statVars, h2hVars>>

AnaInit == InitAna /\ IdleSim /\ IdleStats /\ IdleH2H

SpecAna == AnaInit /\ [][NextAna]_vars

-----------------------------------------------------------------------------
(* The serve probability model, lines 376-410 of run_tennis_analysis, from  *)
(* any two forms and any head-to-head edge                                   *)

\* The forms calculate_player_stats may return and the edges get_h2h_edge
\* may return.
Forms ==
    { [serve_pct |-> sp, return_pct |-> rp, recent_minutes |-> mins] :
        sp \in {R(0, 1), R(1, 2), R(64, 100), R(1, 1)},
        rp \in {R(0, 1), R(36, 100), R(1, 1)},
        mins \in {0, 180, 181, 400} }

Edges == {R(-2, 100), R(0, 1), R(2, 100)}

InitProb ==
    /\ history_df = <<>>
    /\ now \in NowValues
    /\ schedule = <<>>
    /\ apc = "derive"
    /\ match_i = 0
    /\ \E f \in Forms : stats1 = <<f>>
    /\ \E f \in Forms : stats2 = <<f>>
    /\ h2h_impact = Unset
    /\ p1_srv_prob = Unset /\ p2_srv_prob = Unset
    /\ sim_calls = <<>>
    /\ results = <<>>
    /\ sheet = <<>>
    /\ status = ""

\* lines 376-410
ProbStep ==
    /\ apc = "derive"
    /\ \E h \in Edges : DeriveAndSimulate(stats1[1], stats2[1], h)
    /\ apc' = "derived"
    /\ UNCHANGED <<schedule, match_i, results, sheet, status>>

NextProb == ProbStep /\ UNCHANGED <<simVars, dataVars, statVars, h2hVars>>

ProbInit == InitProb /\ IdleSim /\ IdleStats /\ IdleH2H

SpecProb == ProbInit /\ [][NextProb]_vars

-----------------------------------------------------------------------------
(* Properties of run_tennis_analysis *)

\* the matchup the loop of line 361 processes next
NextMatchup == schedule[match_i + 1]

AtMatchup == apc = "loop" /\ match_i < Len(schedule)

\* no row of the 52-week window names the player, on any surface
NoRowsFor(name) ==
    ~ \E i \in 1..Len(history_df) :
          /\ InWindow(history_df[i], now)
          /\ NameMatches(history_df[i], LastLower(name))

C3_Step ==
    AtMatchup =>
        /\ NoRowsFor(NextMatchup.p1_name) => stats1' = None
        /\ NoRowsFor(NextMatchup.p2_name) => stats2' = None
        /\ (NoRowsFor(NextMatchup.p1_name) \/ NoRowsFor(NextMatchup.p2_name)) =>
              /\ sim_calls' = sim_calls
              /\ results' = results
              /\ match_i' = match_i + 1
              /\ apc' = "loop"

\* C3: for every matchup run_tennis_analysis processes, if either player has
\* no relevant row in the 52-week window on the target surface and none on
\* any surface, calculate_player_stats returns None for that player,
\* simulate_match is not called, no result record is appended, and the loop
\* goes on to the next matchup.
C3_NoDataSkipsMatchup == [][C3_Step]_vars

C3_Witness ==
    /\ apc = "loop" /\ match_i = 2 /\ Len(schedule) = 2
    /\ NoRowsFor(schedule[1].p2_name) /\ ~NoRowsFor(schedule[1].p1_name)
    /\ Len(results) = 1 /\ Len(sim_calls) = 1
    /\ results[1].Favorite = schedule[2].p1_name

InBounds(x) == RLeq(R(40, 100), x) /\ RLeq(x, R(85, 100))

\* C4: for all forms with serve_pct and return_pct in [0,1], every
\* recent_minutes and every head-to-head edge in {-0.02, 0, +0.02}, both
\* serve probabilities passed to simulate_match lie in [0.40, 0.85].
C4_ProbabilitiesClamped ==
    apc = "derived" =>
        /\ InBounds(p1_srv_prob) /\ InBounds(p2_srv_prob)
        /\ Len(sim_calls) = 1
        /\ InBounds(sim_calls[1][1]) /\ InBounds(sim_calls[1][2])

C4_Witness ==
    /\ apc = "derived"
    /\ stats1[1].serve_pct = R(92, 100) /\ stats1[1].recent_minutes = 181
    /\ stats2[1].return_pct = R(0, 1)
    /\ stats2[1].serve_pct = R(0, 1) /\ stats1[1].return_pct = R(1, 1)
    /\ h2h_impact = R(2, 100)
    /\ sim_calls = << <<R(85, 100), R(40, 100), SIMULATIONS>> >>

-----------------------------------------------------------------------------
(* The specification of simulate_match *)

Init == InitSim /\ IdleData /\ IdleStats /\ IdleH2H /\ IdleAna

Next ==
    \/ Call /\ UNCHANGED <<dataVars, statVars, h2hVars, anaVars>>
    \/ IterStep /\ UNCHANGED <<dataVars, statVars, h2hVars, anaVars>>
    \/ MatchStep /\ UNCHANGED <<dataVars, statVars, h2hVars, anaVars>>
    \/ SetStep /\ UNCHANGED <<dataVars, statVars, h2hVars, anaVars>>
    \/ TbStep /\ UNCHANGED <<dataVars, statVars, h2hVars, anaVars>>
    \/ GameStep /\ UNCHANGED <<dataVars, statVars, h2hVars, anaVars>>

Spec == Init /\ [][Next]_vars

-----------------------------------------------------------------------------
(* Properties of simulate_match *)

InPlay == pc \in {"set", "tb", "game"}

\* ceil(best_of / 2)
Needed == (best_of + 1) \div 2

\* the threshold that stands for player 2 serving
P2Threshold == RSub(RInt(1), p2_serve_prob)

\* C1: simulate_match called with a best_of other than 3 or 5 is rejected
\* before any point is drawn: no set, game or point is simulated and no win
\* probability is returned.
C1_InvalidBestOfRejected ==
    best_of \notin {3, 5} => (~InPlay /\ pc # "done" /\ result = None)

C2_Step ==
          /\ (pc = "match" /\ (p1_sets = Needed \/ p2_sets = Needed))
                => pc' = "iter"
          /\ (pc = "match" /\ pc' = "iter") =>
                /\ (p1_sets = Needed /\ p2_sets < Needed)
                     \/ (p2_sets = Needed /\ p1_sets < Needed)
                /\ p1_match_wins' =
                     p1_match_wins + (IF p1_sets = Needed THEN 1 ELSE 0)
                /\ it' = it + 1
          /\ (pc' \in {"set", "tb", "game"})
                => (p1_sets' < Needed /\ p2_sets' < Needed)
          /\ (pc' # "match" \/ pc # "match") => p1_match_wins' >= p1_match_wins
          /\ 0 <= p1_match_wins' /\ p1_match_wins' <= it' /\ it' <= iterations
          /\ pc' = "done" =>
                (it' = iterations /\ result' = R(p1_match_wins', iterations))

\* C2: for best_of 3 or 5 a match ends at the first moment a player's set
\* count equals ceil(best_of/2); the other player then has fewer sets, no
\* further set is played, the win counter goes up by exactly 1 iff that
\* player is player 1, and 0 <= p1_match_wins <= the passes made <= N.
C2_MatchEnd ==
    [][(best_of \in {3, 5}) => C2_Step]_vars

C2_Witness ==
    /\ pc = "iter" /\ best_of = 5 /\ it = 2
    /\ p1_sets = 3 /\ p2_sets = 2 /\ p1_match_wins = 1

\* C7 as stated: in a tie-break the threshold is p1_serve_prob on points
\* 1, 3, 5, ... and 1 - p2_serve_prob on points 2, 4, 6, ...
C7_AlternatesEveryPoint ==
    (pc = "tb" /\ p1_tb + p2_tb >= 1) =>
        prob = (IF (p1_tb + p2_tb) % 2 = 1 THEN p1_serve_prob ELSE P2Threshold)

\* C7 as amended: in a tie-break the threshold changes after every
\* odd-numbered point: it is p1_serve_prob on points 1, 4, 5, 8, 9, ... and
\* 1 - p2_serve_prob on points 2, 3, 6, 7, ...
C7_ChangesAfterOddPoints ==
    (pc = "tb" /\ p1_tb + p2_tb >= 1) =>
        prob = (IF (p1_tb + p2_tb) % 4 \in {0, 1} THEN p1_serve_prob
                ELSE P2Threshold)

C7_Witness ==
    /\ pc = "tb" /\ p1_tb = 2 /\ p2_tb = 3 /\ prob = p1_serve_prob
    /\ server_is_p1 = FALSE

\* the final game scores of a set, winner first
FinalScores == {<<6, 0>>, <<6, 1>>, <<6, 2>>, <<6, 3>>, <<6, 4>>, <<7, 5>>, <<7, 6>>}

C9_Step ==
           /\ (pc = "set" /\ p1_games = 6 /\ p2_games = 6) => pc' = "tb"
           /\ (pc = "tb" /\ ( (p1_tb >= 7 /\ p1_tb - p2_tb >= 2)
                              \/ (p2_tb >= 7 /\ p2_tb - p1_tb >= 2) ))
                 => pc' = "set"
           /\ (pc = "tb" /\ pc' = "set") =>
                 \/ /\ p1_tb >= 7 /\ p1_tb - p2_tb >= 2
                    /\ p1_games' = 7 /\ p2_games' = 6
                 \/ /\ p2_tb >= 7 /\ p2_tb - p1_tb >= 2
                    /\ p2_games' = 7 /\ p1_games' = 6
           /\ (pc = "set" /\ (p1_games = 7 \/ p2_games = 7)) => pc' = "match"
           /\ (pc = "set" /\ pc' = "match") =>
                 \/ /\ <<p1_games, p2_games>> \in FinalScores
                    /\ p1_sets' = p1_sets + 1 /\ p2_sets' = p2_sets
                 \/ /\ <<p2_games, p1_games>> \in FinalScores
                    /\ p2_sets' = p2_sets + 1 /\ p1_sets' = p1_sets
           /\ (pc = "set" /\ pc' # "match") =>
                 (p1_sets' = p1_sets /\ p2_sets' = p2_sets)
           /\ (pc \in {"tb", "game"}) =>
                 (p1_sets' = p1_sets /\ p2_sets' = p2_sets)

\* C9: a tie-break is played iff the game score reaches 6-6; it ends exactly
\* when a player has >= 7 tie-break points and leads by >= 2, and that player
\* gets 7 games and the set.  A completed set ends 6-0, 6-1, 6-2, 6-3, 6-4,
\* 7-5 or 7-6, no game count exceeds 7, and exactly one set count goes up by
\* 1 per set.
C9_TieBreakAndSetScores ==
    /\ [](p1_games <= 7 /\ p2_games <= 7)
    /\ [](pc = "tb" => (p1_games = 6 /\ p2_games = 6))
    /\ [][C9_Step]_vars

C9_Witness ==
    /\ pc = "set" /\ p1_games = 6 /\ p2_games = 7 /\ p1_tb = 6 /\ p2_tb = 8

\* C10: in regular games the threshold of every point of a game is
\* p1_serve_prob when the number of games completed in the current set is
\* even and 1 - p2_serve_prob when it is odd, so that the server alternates
\* every game and player 1 serves the first game of every set.
C10_ServerAlternatesByGame ==
    pc = "game" =>
        /\ is_p1_serving = ((p1_games + p2_games) % 2 = 0)
        /\ (p1_pts + p2_pts >= 1) =>
              prob = (IF (p1_games + p2_games) % 2 = 0 THEN p1_serve_prob
                      ELSE P2Threshold)
        /\ (p1_games + p2_games = 0) => is_p1_serving

C10_Witness ==
    /\ pc = "game" /\ p1_sets + p2_sets = 2 /\ p1_games = 0 /\ p2_games = 0
    /\ p1_pts + p2_pts = 3 /\ prob = p1_serve_prob

C11_Won(mine, other) == mine >= 4 /\ mine - other >= 2

\* the point scores a regular game can end at, winner's points first
C11_FinalScore(w, l) == (w = 4 /\ l \in 0..2) \/ (l >= 3 /\ w = l + 2)

C11_Step ==
    pc = "game" =>
        IF C11_Won(p1_pts, p2_pts) \/ C11_Won(p2_pts, p1_pts)
        THEN /\ pc' = "set"
             /\ draw' = Unset
             /\ p1_pts' = p1_pts /\ p2_pts' = p2_pts
             /\ IF p1_pts > p2_pts
                THEN /\ p1_games' = p1_games + 1 /\ p2_games' = p2_games
                     /\ C11_FinalScore(p1_pts, p2_pts)
                ELSE /\ p2_games' = p2_games + 1 /\ p1_games' = p1_games
                     /\ C11_FinalScore(p2_pts, p1_pts)
        ELSE /\ pc' = "game"
             /\ draw' \in Draws
             /\ p1_games' = p1_games /\ p2_games' = p2_games
             /\ IF RLess(draw', prob')
                THEN p1_pts' = p1_pts + 1 /\ p2_pts' = p2_pts
                ELSE p2_pts' = p2_pts + 1 /\ p1_pts' = p1_pts

\* C11: in a regular game every random draw adds 1 to exactly one player's
\* points, player 1's when the draw is below the applied threshold and
\* player 2's otherwise; the game is awarded at the first score where a
\* player has at least 4 points and leads by at least 2: no point is drawn
\* there, exactly one player's games grow by 1, and the final score is 4-0,
\* 4-1, 4-2 or (n+2)-n with n >= 3 for the winner.
C11_RegularGameScoring == [][C11_Step]_vars

C11_Witness ==
    /\ pc = "set" /\ p1_pts = 3 /\ p2_pts = 5 /\ p1_games = 0 /\ p2_games = 1
    /\ draw = Unset

====
